---- MODULE Spec2Model ----
(***************************************************************************)
(* The Universal Machine of src/main.c: the segment store (new_UM,         *)
(* map_segment, unmap_segment, free_UM), the fourteen instructions and the *)
(* dispatch loop run_program, over an explicit heap of malloc'd blocks.    *)
(*                                                                         *)
(* A uint32_t is a pair <<hi, lo>> of 16-bit limbs (value hi * 2^16 + lo), *)
(* because the model checker's integers stop at 2^31 - 1 and the machine   *)
(* reaches 0xFFFFFFFF in one instruction (NAND, Input at end of file).     *)
(***************************************************************************)
EXTENDS Integers, Sequences, FiniteSets, TLC

(***************************************************************************)
(* Bounds of the model.                                                    *)
(***************************************************************************)
\* heap blocks that can be allocated at once; malloc fails beyond
MaxAddr == 4
\* cells of the largest block malloc grants; an access at or beyond this offset
\* from a block's start is outside mapped memory and faults
MaxCells == 20
\* slots of the largest spine / free-identifier array realloc grants
MaxSpine == 8
\* length of the generated map/unmap programs
AllocLen == 5
\* length of the generated store/load/unmap/map programs, after their prefix
MemLen == 3
\* instructions the generated load-program programs run after the Load Program
LoadTail == 2
\* bytes the program may write to stdout before the model stops it
MaxOut == 2

(***************************************************************************)
(* uint32_t arithmetic on limb pairs.                                      *)
(***************************************************************************)
Limb == 65536

W(n) == <<n \div Limb, n % Limb>>

IsSmall(w) == w[1] = 0

Lo(w) == w[2]

AllOnes == <<Limb - 1, Limb - 1>>

\* x + 1 in uint32_t
Inc32(w) ==
    IF w[2] + 1 < Limb THEN <<w[1], w[2] + 1>>
    ELSE <<(w[1] + 1) % Limb, 0>>

\* x - 1 in uint32_t
Dec32(w) ==
    IF w[2] > 0 THEN <<w[1], w[2] - 1>>
    ELSE <<(w[1] + Limb - 1) % Limb, Limb - 1>>

\* a < b as unsigned 32-bit values
Less32(a, b) == a[1] < b[1] \/ (a[1] = b[1] /\ a[2] < b[2])

\* the carry out of the low half is dropped
Add32_NoCarry(a, b) == <<(a[1] + b[1]) % Limb, (a[2] + b[2]) % Limb>>

\* (a + b) truncated to uint32_t
Add32(a, b) ==
    LET s == a[2] + b[2]
    IN  <<(a[1] + b[1] + (s \div Limb)) % Limb, s % Limb>>

\* the 16 x 16 -> 32 bit product x * y as a limb pair
Mul16(x, y) ==
    LET p1 == x * (y \div 256)
        p0 == x * (y % 256)
        low == (p1 % 256) * 256 + p0
    IN  <<((p1 \div 256) + (low \div Limb)) % Limb, low % Limb>>

\* (a * b) truncated to uint32_t
Mul32(a, b) ==
    LET ll == Mul16(a[2], b[2])
        cross == (Mul16(a[1], b[2])[2] + Mul16(a[2], b[1])[2]) % Limb
    IN  <<(ll[1] + cross) % Limb, ll[2]>>

\* byte i (0 = least significant) of a uint32_t
Byte32(w, i) == IF i >= 2 THEN (w[1] \div (256 ^ (i - 2))) % 256 ELSE (w[2] \div (256 ^ i)) % 256

\* x <= y for pairs <<hi, lo>> with lo < 2^16 and hi of any size
LeqPair(x, y) == x[1] < y[1] \/ (x[1] = y[1] /\ x[2] <= y[2])

\* d * b as such a pair, d < 256
TimesDigit(d, b) == <<d * b[1] + ((d * b[2]) \div Limb), (d * b[2]) % Limb>>

\* One step of long division in base 256: qr = <<quotient, remainder>> so far,
\* with remainder < b; byte i of a is brought down.
DivStep(a, b, i, qr) ==
    LET q == qr[1]
        r == qr[2]
        lo == r[2] * 256 + Byte32(a, i)
        r2 == <<r[1] * 256 + (lo \div Limb), lo % Limb>>
        d == Cardinality({e \in 1..255 : LeqPair(TimesDigit(e, b), r2)})
        db == TimesDigit(d, b)
        rem == IF r2[2] >= db[2] THEN <<r2[1] - db[1], r2[2] - db[2]>>
               ELSE <<r2[1] - db[1] - 1, r2[2] + Limb - db[2]>>
        q2lo == q[2] * 256 + d
    IN  <<<<(q[1] * 256 + (q2lo \div Limb)) % Limb, q2lo % Limb>>, rem>>

\* a / b in uint32_t, b # 0: long division over the four bytes of a
Div32(a, b) ==
    LET s3 == DivStep(a, b, 3, <<<<0, 0>>, <<0, 0>>>>)
        s2 == DivStep(a, b, 2, s3)
        s1 == DivStep(a, b, 1, s2)
        s0 == DivStep(a, b, 0, s1)
    IN  s0[1]

\* bit i of x AND y, in place
AndBit(x, y, i) == ((x \div (2 ^ i)) % 2) * ((y \div (2 ^ i)) % 2) * (2 ^ i)

\* x & y on 8-bit values
And8(x, y) ==
    AndBit(x, y, 0) + AndBit(x, y, 1) + AndBit(x, y, 2) + AndBit(x, y, 3)
    + AndBit(x, y, 4) + AndBit(x, y, 5) + AndBit(x, y, 6) + AndBit(x, y, 7)

\* x & y on 16-bit limbs
BitAnd(x, y) == And8(x % 256, y % 256) + 256 * And8(x \div 256, y \div 256)

\* ~(a & b) in uint32_t
Nand32(a, b) == <<Limb - 1 - BitAnd(a[1], b[1]), Limb - 1 - BitAnd(a[2], b[2])>>

\* word >> bits, bits <= 32, on a value below 2^32
shr(word, bits) ==
    IF bits >= 32 THEN <<0, 0>>
    ELSE IF bits >= 16 THEN <<0, word[1] \div (2 ^ (bits - 16))>>
    ELSE <<word[1] \div (2 ^ bits),
           (word[1] % (2 ^ bits)) * (2 ^ (16 - bits)) + (word[2] \div (2 ^ bits))>>

\* the low `width` bits of a value below 2^32
LowBits(word, width) ==
    IF width >= 32 THEN word
    ELSE IF width >= 16 THEN <<word[1] % (2 ^ (width - 16)), word[2]>>
    ELSE <<0, word[2] % (2 ^ width)>>

\* the field of `width` bits whose least significant bit is `lsb`
Bitpack_getu(word, width, lsb) == LowBits(shr(word, lsb), width)

\* the low 32 bits of word << bits, bits <= 32
shl(word, bits) ==
    IF bits >= 32 THEN <<0, 0>>
    ELSE IF bits >= 16 THEN <<(word[2] * (2 ^ (bits - 16))) % Limb, 0>>
    ELSE <<(word[1] * (2 ^ bits) + ((word[2] * (2 ^ bits)) \div Limb)) % Limb,
           (word[2] * (2 ^ bits)) % Limb>>

\* a | b: the bits of a and the bits of b, those of both counted once
BitOr(a, b) ==
    <<a[1] + b[1] - (IF a[1] = 0 \/ b[1] = 0 THEN 0 ELSE BitAnd(a[1], b[1])),
      a[2] + b[2] - (IF a[2] = 0 \/ b[2] = 0 THEN 0 ELSE BitAnd(a[2], b[2]))>>

\* the low 32 bits of an int converted to uint64_t: a negative int has all of
\* them (and the 32 above them) set
ToU32(value) == IF value < 0 THEN AllOnes ELSE W(value)

\* every value is taken to fit
Bitpack_fitsu_Any(n, width) == TRUE

\* shr(n, width) == 0, n an int converted to uint64_t and width < 31
Bitpack_fitsu(n, width) == IF n < 0 THEN FALSE ELSE n \div (2 ^ width) = 0

\* the word with the field replaced, as read_program_file keeps it in a
\* uint32_t, or RAISE(Bitpack_Overflow); lsb + width <= 32
Bitpack_newu(word, width, lsb, value) ==
    LET hi == lsb + width IN
    IF ~Bitpack_fitsu(value, width)
    THEN [raised |-> TRUE, word |-> word]
    ELSE [raised |-> FALSE,
          word |-> BitOr(BitOr(shl(shr(word, hi), hi), LowBits(word, lsb)),
                         shl(ToU32(value), lsb))]

(***************************************************************************)
(* The heap: malloc, calloc, free.  A block is the array of uint32_t cells *)
(* it was allocated with; the spine and the free-identifier array are the  *)
(* fields segments and unmapped_IDs of the machine.                        *)
(***************************************************************************)
Addrs == 1..MaxAddr

\* an indeterminate pointer (a spine slot never written): no block's address
UninitPtr == 0

\* an indeterminate uint32_t (a free-identifier slot never written)
UninitWord == <<-1, -1>>

FreeBlock == [alloc |-> FALSE, cells |-> <<>>]

FreeAddrs(h) == {p \in Addrs : ~h[p].alloc}

IsLive(h, p) == p \in Addrs /\ h[p].alloc

\* what a read outside every object may return when it does not fault
JunkWords == {<<28672, 0>>, AllOnes}

\* free(p): undefined unless p is a live block; the build then faults or goes on
free(c, p) ==
    IF IsLive(c.heap, p) THEN {[c EXCEPT !.heap[p] = FreeBlock]}
    ELSE {[c EXCEPT !.status = "trap"], c}

\* assert(e) with e false: abort()
abort(c) == [c EXCEPT !.status = "abort"]

(***************************************************************************)
(* Universal Machine module.                                               *)
(***************************************************************************)
NumRegs == 8

new_UM(program_instructions) ==
    [registers |-> [i \in 0..(NumRegs - 1) |-> <<0, 0>>],
     program_counter |-> <<0, 0>>,
     unmapped_IDs |-> [i \in 0..0 |-> UninitWord],
     num_IDs |-> 0,
     ID_arr_size |-> 1,
     segments |-> [i \in 0..0 |-> program_instructions],
     num_segments |-> <<0, 1>>,
     segment_arr_size |-> 1]

\* UM->segments[id]: indeterminate outside the array and in a slot never written
SegPtr(um, id) ==
    IF IsSmall(id) /\ Lo(id) < um.segment_arr_size THEN um.segments[Lo(id)] ELSE UninitPtr

\* realloc(arr, bigger * sizeof ...): the old slots kept, the new ones indeterminate
Grow(arr, bigger, junk) ==
    [i \in 0..(bigger - 1) |-> IF i \in DOMAIN arr THEN arr[i] ELSE junk]

\* line 89: there are no unmapped IDs
NoUnmappedIDs(um) == um.num_IDs = 0

\* the identifier returned is num_segments, not num_segments - 1
AppendedID_OffByOne(slot) == Inc32(slot)

\* line 102: the identifier of a segment appended at `slot`, num_segments
\* having been incremented
AppendedID(slot) == Dec32(Inc32(slot))

\* the front of the array is taken: first in, first out
TopOfStack_Front(um) == um.unmapped_IDs[0]

\* line 107: back most element of the array / top of the stack
TopOfStack(um) == um.unmapped_IDs[um.num_IDs - 1]

\* the identifier is read but left on the stack
Popped_Not(um) == um.num_IDs

\* line 108: num_IDs after the pop
Popped(um) == um.num_IDs - 1

\* lines 88-119 of map_segment, new_segment being the block at p
Install(c, p) ==
    LET um == c.um IN
    IF NoUnmappedIDs(um) THEN
        LET full == um.num_segments = W(um.segment_arr_size)
            bigger_arr_size == um.segment_arr_size * 2
            um1 == IF full
                   THEN [um EXCEPT !.segments = Grow(um.segments, bigger_arr_size, UninitPtr),
                                   !.segment_arr_size = bigger_arr_size]
                   ELSE um
            slot == um.num_segments
        IN  IF full /\ bigger_arr_size > MaxSpine
            THEN {[c |-> abort(c), ret |-> <<0, 0>>]}
            ELSE IF ~(IsSmall(slot) /\ Lo(slot) < um1.segment_arr_size)
            THEN {[c |-> [c EXCEPT !.status = "trap"], ret |-> <<0, 0>>]}
            ELSE {[c |-> [c EXCEPT !.um = [um1 EXCEPT !.segments[Lo(slot)] = p,
                                                     !.num_segments = Inc32(slot)]],
                   ret |-> AppendedID(slot)]}
    ELSE
        LET available_ID == TopOfStack(um)
            to_unmap == SegPtr(um, available_ID)
            inside == IsSmall(available_ID) /\ Lo(available_ID) < um.segment_arr_size
        IN  {[c |-> IF f.status # "running" THEN f
                    ELSE IF ~inside THEN [f EXCEPT !.status = "trap"]
                    ELSE [f EXCEPT !.um.num_IDs = Popped(um),
                                   !.um.segments[Lo(available_ID)] = p,
                                   !.um.num_segments = Inc32(um.num_segments)],
              ret |-> available_ID] : f \in free(c, to_unmap)}

map_segment(c, num_words) ==
    LET cells == Inc32(num_words) IN
    IF cells = <<0, 0>>
    THEN \* calloc(0, 4): NULL, or a block of no cells whose header write is outside it
         {[c |-> abort(c), ret |-> <<0, 0>>], [c |-> [c EXCEPT !.status = "trap"], ret |-> <<0, 0>>]}
         \cup UNION {Install([c EXCEPT !.heap[p] = [alloc |-> TRUE, cells |-> <<>>]], p) :
                     p \in FreeAddrs(c.heap)}
    ELSE IF ~IsSmall(cells) \/ Lo(cells) > MaxCells \/ FreeAddrs(c.heap) = {}
    THEN {[c |-> abort(c), ret |-> <<0, 0>>]}
    ELSE UNION {Install([c EXCEPT !.heap[p] =
                            [alloc |-> TRUE,
                             cells |-> [i \in 1..Lo(cells) |->
                                           IF i = 1 THEN num_words ELSE <<0, 0>>]]], p) :
                p \in FreeAddrs(c.heap)}

\* the identifier is not recorded as available: a strictly monotonic allocator
unmap_segment_Forget(c, segment_ID) == c

\* the count of segments is left as it was
SegmentsAfterUnmap_Same(num_segments) == num_segments

\* line 138: UM->num_segments--
SegmentsAfterUnmap(num_segments) == Dec32(num_segments)

unmap_segment(c, segment_ID) ==
    LET um == c.um
        full == um.num_IDs = um.ID_arr_size
        bigger_arr_size == um.ID_arr_size * 2
        um1 == IF full
               THEN [um EXCEPT !.unmapped_IDs = Grow(um.unmapped_IDs, bigger_arr_size, UninitWord),
                               !.ID_arr_size = bigger_arr_size]
               ELSE um
    IN  IF full /\ bigger_arr_size > MaxSpine THEN abort(c)
        ELSE [c EXCEPT !.um = [um1 EXCEPT !.unmapped_IDs[um.num_IDs] = segment_ID,
                                          !.num_IDs = um.num_IDs + 1,
                                          !.num_segments = SegmentsAfterUnmap(um.num_segments)]]

(***************************************************************************)
(* Instruction set module.  Each instruction maps a configuration          *)
(* c = [um, heap, status, stdout, eof] to the set of configurations the    *)
(* build can leave behind (one, unless the instruction is undefined in C). *)
(***************************************************************************)
\* the cell segments[id][index] exists: a live block with that many cells
CellAt(c, id, index) ==
    LET p == SegPtr(c.um, id) IN
    /\ IsLive(c.heap, p)
    /\ IsSmall(index)
    /\ Lo(index) < Len(c.heap[p].cells)

\* a read outside every object: a fault, or whatever lies there
WildRead(c, index, A) ==
    {[c EXCEPT !.status = "trap"]}
    \cup IF IsSmall(index) /\ Lo(index) < MaxCells
         THEN {[c EXCEPT !.um.registers[A] = j] : j \in JunkWords}
         ELSE {}

\* a write outside every object: a fault, a write nothing reads, or a write into
\* a cell of some live block
WildWrite(c, index, v) ==
    {[c EXCEPT !.status = "trap"]}
    \cup IF IsSmall(index) /\ Lo(index) < MaxCells
         THEN {c} \cup {[c EXCEPT !.heap[t[1]].cells[t[2]] = v] :
                          t \in {u \in Addrs \X (1..MaxCells) :
                                    c.heap[u[1]].alloc /\ u[2] <= Len(c.heap[u[1]].cells)}}
         ELSE {}

\* the store forgets the cell that holds the length
StoreIndex_NoHeader(offset) == offset

\* lines 177 and 192: the cell of a segment's block that holds its word `offset`
LoadIndex(offset) == Inc32(offset)

StoreIndex(offset) == Inc32(offset)

conditional_move(c, A, B, C) ==
    IF c.um.registers[C] # <<0, 0>>
    THEN {[c EXCEPT !.um.registers[A] = c.um.registers[B]]}
    ELSE {c}

segmented_load(c, A, B, C) ==
    LET segment_ID == c.um.registers[B]
        offset == c.um.registers[C]
        index == LoadIndex(offset)
    IN  IF CellAt(c, segment_ID, index)
        THEN {[c EXCEPT !.um.registers[A] =
                   c.heap[SegPtr(c.um, segment_ID)].cells[Lo(index) + 1]]}
        ELSE WildRead(c, index, A)

\* the value lands in the cell after it as well
StoredCells_Spill(cells, index, v) ==
    [i \in 1..Len(cells) |-> IF i \in {Lo(index) + 1, Lo(index) + 2} THEN v ELSE cells[i]]

\* line 192: the block after the assignment to its cell `index`
StoredCells(cells, index, v) == [cells EXCEPT ![Lo(index) + 1] = v]

segmented_store(c, A, B, C) ==
    LET segment_ID == c.um.registers[A]
        offset == c.um.registers[B]
        index == StoreIndex(offset)
    IN  IF CellAt(c, segment_ID, index)
        THEN {[c EXCEPT !.heap[SegPtr(c.um, segment_ID)].cells =
                   StoredCells(@, index, c.um.registers[C])]}
        ELSE WildWrite(c, index, c.um.registers[C])

\* x % mod_limit, mod_limit being 2^32 and x a uint32_t
Mod_limit(x) == x

addition(c, A, B, C) ==
    {[c EXCEPT !.um.registers[A] = Mod_limit(Add32(c.um.registers[B], c.um.registers[C]))]}

multiplication(c, A, B, C) ==
    {[c EXCEPT !.um.registers[A] = Mod_limit(Mul32(c.um.registers[B], c.um.registers[C]))]}

\* a division by zero is undefined: SIGFPE, or a quotient the hardware made up
division(c, A, B, C) ==
    IF c.um.registers[C] = <<0, 0>>
    THEN {[c EXCEPT !.status = "trap"]} \cup {[c EXCEPT !.um.registers[A] = j] : j \in JunkWords}
    ELSE {[c EXCEPT !.um.registers[A] = Mod_limit(Div32(c.um.registers[B], c.um.registers[C]))]}

bitwise_nand(c, A, B, C) ==
    {[c EXCEPT !.um.registers[A] = Nand32(c.um.registers[B], c.um.registers[C])]}

map(c, B, C) ==
    {IF r.c.status = "running" THEN [r.c EXCEPT !.um.registers[B] = r.ret] ELSE r.c :
        r \in map_segment(c, c.um.registers[C])}

unmap(c, C) == {unmap_segment(c, c.um.registers[C])}

\* putchar(int) writes its argument converted to unsigned char
output(c, C) == {[c EXCEPT !.stdout = Append(c.stdout, Lo(c.um.registers[C]) % 256)]}

\* the bytes getchar() may deliver
InBytes == {0, 65, 255}

\* getchar(): a byte, or EOF, and EOF again once the stream has ended
input(c, C) ==
    {[c EXCEPT !.um.registers[C] = AllOnes, !.eof = TRUE]}
    \cup IF c.eof THEN {} ELSE {[c EXCEPT !.um.registers[C] = W(b)] : b \in InBytes}

\* the loop stops one cell early
CopyOf_Short(block, true_size, junk) ==
    [i \in 1..true_size |-> IF i < true_size /\ i <= Len(block.cells) THEN block.cells[i] ELSE junk]

\* the cells target_segment[0 .. true_size - 1] as the copy loop reads them; a
\* read past the end of the block returns whatever lies there
CopyOf(block, true_size, junk) ==
    [i \in 1..true_size |-> IF i <= Len(block.cells) THEN block.cells[i] ELSE junk]

\* segment 0 becomes the segment itself, not the copy
NewSegmentZero_Shallow(deep_copy, target_segment) == target_segment

\* line 316: what becomes segment 0
NewSegmentZero(deep_copy, target_segment) == deep_copy

\* lines 307-316 of load_program, num_instructions being what target_segment[0]
\* delivered: the copy is allocated and filled, the old segment 0 freed, the
\* copy installed.  malloc(0) returns NULL or a block of no cells.
Duplicate(c, target_segment, num_instructions) ==
    LET true_size == Inc32(num_instructions)
        source == IF target_segment \in Addrs THEN c.heap[target_segment] ELSE FreeBlock
    IN  IF ~IsSmall(true_size) \/ Lo(true_size) > MaxCells \/ FreeAddrs(c.heap) = {}
        THEN {abort(c)}
        ELSE (IF true_size = <<0, 0>> THEN {abort(c)} ELSE {}) \cup
             UNION {
               {IF f.status # "running" THEN f
                ELSE [f EXCEPT !.um.segments[0] =
                         NewSegmentZero(deep_copy, target_segment)] :
                  f \in free([c EXCEPT !.heap[deep_copy] =
                                 [alloc |-> TRUE,
                                  cells |-> CopyOf(source, Lo(true_size), junk)]],
                             c.um.segments[0])} :
               deep_copy \in FreeAddrs(c.heap), junk \in JunkWords}

\* a read of target_segment[0] outside every object faults or delivers
\* whatever lies there
load_program(c, B) ==
    LET reg_B_value == c.um.registers[B]
        target_segment == SegPtr(c.um, reg_B_value)
    IN  IF reg_B_value = <<0, 0>> THEN {c}
        ELSE IF ~CellAt(c, reg_B_value, <<0, 0>>)
        THEN {[c EXCEPT !.status = "trap"]}
             \cup UNION {Duplicate(c, target_segment, j) : j \in JunkWords}
        ELSE Duplicate(c, target_segment, c.heap[target_segment].cells[1])

load_value(c, A, value) == {[c EXCEPT !.um.registers[A] = value]}

(***************************************************************************)
(* Program main module: the dispatch loop and teardown.                    *)
(***************************************************************************)
\* the words the fetch segment_zero[program_counter + 1] can deliver; none when
\* the read faults for sure
Fetched(c) ==
    LET index == Inc32(c.um.program_counter) IN
    IF CellAt(c, <<0, 0>>, index)
    THEN {c.heap[SegPtr(c.um, <<0, 0>>)].cells[Lo(index) + 1]}
    ELSE IF IsSmall(index) /\ Lo(index) < MaxCells THEN JunkWords ELSE {}

OpCodeOf(word) == Lo(Bitpack_getu(word, 4, 28))

\* the counter is incremented after the jump too
AdvancePC_AlwaysIncrement(d, OP_CODE, C) ==
    IF d.status # "running" THEN d
    ELSE IF OP_CODE = 12 THEN [d EXCEPT !.um.program_counter = Inc32(d.um.registers[C])]
    ELSE [d EXCEPT !.um.program_counter = Inc32(d.um.program_counter)]

\* lines 601-604: the program counter after an instruction that returned
AdvancePC(d, OP_CODE, C) ==
    IF d.status # "running" THEN d
    ELSE IF OP_CODE = 12 THEN [d EXCEPT !.um.program_counter = d.um.registers[C]]
    ELSE [d EXCEPT !.um.program_counter = Inc32(d.um.program_counter)]

\* the counter is advanced before the loop is left
Halted_Advance(c) ==
    [c EXCEPT !.status = "halted", !.um.program_counter = Inc32(c.um.program_counter)]

\* lines 545-547: run_program returns to main
Halted(c) == [c EXCEPT !.status = "halted"]

\* one turn of the loop of run_program on the fetched word
Execute(c, word) ==
    LET OP_CODE == OpCodeOf(word) IN
    IF OP_CODE = 7 THEN {Halted(c)}
    ELSE IF OP_CODE = 13
    THEN LET A == Lo(Bitpack_getu(word, 3, 25))
             load_val == Bitpack_getu(word, 25, 0)
         IN  {AdvancePC(d, OP_CODE, 0) : d \in load_value(c, A, load_val)}
    ELSE LET A == Lo(Bitpack_getu(word, 3, 6))
             B == Lo(Bitpack_getu(word, 3, 3))
             C == Lo(Bitpack_getu(word, 3, 0))
             done == CASE OP_CODE = 0 -> conditional_move(c, A, B, C)
                       [] OP_CODE = 1 -> segmented_load(c, A, B, C)
                       [] OP_CODE = 2 -> segmented_store(c, A, B, C)
                       [] OP_CODE = 3 -> addition(c, A, B, C)
                       [] OP_CODE = 4 -> multiplication(c, A, B, C)
                       [] OP_CODE = 5 -> division(c, A, B, C)
                       [] OP_CODE = 6 -> bitwise_nand(c, A, B, C)
                       [] OP_CODE = 8 -> map(c, B, C)
                       [] OP_CODE = 9 -> unmap(c, C)
                       [] OP_CODE = 10 -> output(c, C)
                       [] OP_CODE = 11 -> input(c, C)
                       [] OP_CODE = 12 -> load_program(c, B)
                       [] OTHER -> {c}
         IN  {AdvancePC(d, OP_CODE, C) : d \in done}

\* free_UM: the first num_segments slots of the spine, then the spine, the
\* free-identifier array and the struct
free_UM(c) ==
    LET n == c.um.num_segments IN
    IF ~(IsSmall(n) /\ Lo(n) <= c.um.segment_arr_size)
    THEN \* the loop runs off the spine
         {[c EXCEPT !.status = "trap"]}
    ELSE LET ptrs == {c.um.segments[i] : i \in 0..(Lo(n) - 1)}
             sound == /\ \A p \in ptrs : IsLive(c.heap, p)
                      /\ Cardinality(ptrs) = Lo(n)
             freed == [c EXCEPT !.heap = [p \in Addrs |->
                                            IF p \in ptrs THEN FreeBlock ELSE c.heap[p]],
                                !.status = "exited"]
         IN  IF sound THEN {freed} ELSE {[c EXCEPT !.status = "trap"], freed}

(***************************************************************************)
(* Program files.  An instruction word is built here the way the UM        *)
(* assembler lays it out and taken apart by Bitpack_getu in Execute.       *)
(***************************************************************************)
Instr(op, A, B, C) == <<op * 4096, A * 64 + B * 8 + C>>

LoadVal(A, v) == <<13 * 4096 + A * 512 + (v \div Limb), v % Limb>>

HaltWord == Instr(7, 0, 0, 0)

\* r1 := map(r0), r2 := map(r0), unmap(r1), unmap(r2)
AllocOps == {Instr(8, 0, 1, 0), Instr(8, 0, 2, 0), Instr(9, 0, 0, 1), Instr(9, 0, 0, 2)}

\* every program of AllocLen map/unmap instructions, then Halt
AllocPrograms == {[i \in 1..(AllocLen + 1) |-> IF i <= AllocLen THEN p[i] ELSE HaltWord] :
                    p \in [1..AllocLen -> AllocOps]}

\* r3 = 7 + 3, r4 = 7 * 3, r5 = 7 / 3, r6 = ~0, r7 = ~0 + 3, two conditional
\* moves, one byte out
ProgArith ==
    <<LoadVal(1, 7), LoadVal(2, 3), Instr(3, 3, 1, 2), Instr(4, 4, 1, 2), Instr(5, 5, 1, 2),
      Instr(6, 6, 0, 0), Instr(3, 7, 6, 2), Instr(0, 1, 2, 0), Instr(0, 1, 2, 2),
      Instr(10, 0, 0, 1), HaltWord>>

\* read a byte, write it
ProgEcho == <<Instr(11, 0, 0, 1), Instr(10, 0, 0, 1), Instr(11, 0, 0, 2), HaltWord>>

\* map two words, store 5 and 2 in them, load, unmap, map again, load
ProgMem ==
    <<LoadVal(7, 2), Instr(8, 0, 1, 7), LoadVal(2, 5), LoadVal(6, 1), Instr(2, 1, 0, 2),
      Instr(2, 1, 6, 7), Instr(1, 3, 1, 0), Instr(1, 4, 1, 6), Instr(9, 0, 0, 1),
      Instr(8, 0, 4, 7), Instr(1, 5, 4, 0), Instr(1, 3, 4, 6), HaltWord>>

\* r7 := 2, r6 := 1, r2 := 5, r1 := map(r7): a segment of two words as 1
MemPrefix == <<LoadVal(7, 2), LoadVal(6, 1), LoadVal(2, 5), Instr(8, 0, 1, 7)>>

\* M[r1][0] := r2, M[r1][1] := r7, r3 := M[r1][0], r4 := M[r1][1], unmap(r1),
\* r1 := map(r7)
MemOps == {Instr(2, 1, 0, 2), Instr(2, 1, 6, 7), Instr(1, 3, 1, 0), Instr(1, 4, 1, 6),
           Instr(9, 0, 0, 1), Instr(8, 0, 1, 7)}

\* the prefix, every sequence of MemLen of these, Halt
MemPrograms == {MemPrefix \o p \o <<HaltWord>> : p \in [1..MemLen -> MemOps]}

\* Map a segment as long as this program as segment 1, copy the instructions
\* after the Load Program (tail, then Halt) to the same offsets there, load
\* segment 1 as the program and go on in the copy at the first of them.  The
\* words of the copy before them are 0, conditional moves that move nothing.
ProgLoadWith(tail) ==
    LET n == Len(tail) + 1
        T == 3 + 3 * n
        total == T + n
        from(j) == IF j < n THEN T + j ELSE T
    IN  [i \in 1..total |->
           IF i = 1 THEN LoadVal(7, total)
           ELSE IF i = 2 THEN Instr(8, 0, 1, 7)
           ELSE IF i <= 2 + 3 * n
           THEN CASE (i - 3) % 3 = 0 -> LoadVal(5, from(((i - 3) \div 3) + 1))
                  [] (i - 3) % 3 = 1 -> Instr(1, 4, 0, 5)
                  [] OTHER -> Instr(2, 1, 5, 4)
           ELSE IF i = T THEN Instr(12, 0, 1, 5)
           ELSE IF i < total THEN tail[i - T]
           ELSE HaltWord]

\* M[r1][0] := r7, M[0][0] := r7, M[r1][1] := r5, M[0][1] := r5, r2 := M[0][0],
\* r3 := M[r1][0], with r1 = 1
TailOps == {Instr(2, 1, 0, 7), Instr(2, 0, 0, 7), Instr(2, 1, 1, 5), Instr(2, 0, 1, 5),
            Instr(1, 2, 0, 0), Instr(1, 3, 1, 0)}

LoadPrograms == {ProgLoadWith(t) : t \in [1..LoadTail -> TailOps]}

\* Load Program with R[B] = 0: a jump over one instruction
ProgJump == <<LoadVal(1, 3), Instr(12, 0, 0, 1), LoadVal(2, 9), HaltWord>>

\* no Halt: the counter runs off the end of segment 0
ProgRunOff == <<LoadVal(0, 0)>>

\* a jump beyond the end of segment 0
ProgBadJump == <<LoadVal(1, 9), Instr(12, 0, 0, 1), HaltWord>>

ProgDivZero == <<LoadVal(1, 7), Instr(5, 2, 1, 0), HaltWord>>

\* opcode 14
ProgInvalid == <<Instr(14, 0, 0, 0), HaltWord>>

\* r1 := ~0, map(r1)
ProgWrap == <<Instr(6, 1, 0, 0), Instr(8, 0, 2, 1), Instr(1, 3, 2, 0), HaltWord>>

\* r1 := ~0, r2 := map(r1), load segment r2 as the program
ProgWrapLoad == <<Instr(6, 1, 0, 0), Instr(8, 0, 2, 1), Instr(12, 0, 2, 0), HaltWord>>

\* a store and a load through identifier 5, never mapped
ProgWild == <<LoadVal(1, 5), Instr(2, 1, 0, 1), Instr(1, 2, 1, 0), HaltWord>>

\* write 300
ProgOut == <<LoadVal(1, 300), Instr(10, 0, 0, 1), HaltWord>>

\* operands for the arithmetic instructions: values a Load Value can hold, each
\* used as it is or complemented (NAND with itself)
ArithVals == {0, 1, 3, 7, 65535, 65536, 33554431}

\* r1 := a or ~a, r2 := b or ~b, r[dest] := r1 op r2; a conditional move on
\* r0 = 0 stands where no complement is taken
ProgCalc(a, na, b, nb, op, dest) ==
    <<LoadVal(1, a), IF na THEN Instr(6, 1, 1, 1) ELSE Instr(0, 0, 0, 0),
      LoadVal(2, b), IF nb THEN Instr(6, 2, 2, 2) ELSE Instr(0, 0, 0, 0),
      Instr(op, dest, 1, 2), HaltWord>>

CalcPrograms ==
    {ProgCalc(a, na, b, nb, op, dest) :
        a \in ArithVals, na \in BOOLEAN, b \in ArithVals, nb \in BOOLEAN,
        op \in 3..6, dest \in {1, 3}}

Programs ==
    AllocPrograms \cup MemPrograms \cup LoadPrograms \cup CalcPrograms \cup
    {ProgArith, ProgEcho, ProgMem, ProgJump, ProgRunOff, ProgBadJump, ProgDivZero,
     ProgInvalid, ProgWrap, ProgWrapLoad, ProgWild, ProgOut}

\* the file of a program: each word most significant byte first
FileOf(words) ==
    [k \in 1..(4 * Len(words)) |-> Byte32(words[((k - 1) \div 4) + 1], 3 - ((k - 1) % 4))]

\* files cut short: not a whole number of words
OddFiles == {SubSeq(FileOf(ProgOut), 1, k) : k \in {1, 2, 3, 5, 6, 7, 9, 10, 11}}

Files == {FileOf(words) : words \in Programs} \cup OddFiles

EOF == 0 - 1

\* fgetc: the k-th byte of the file, EOF from its end on
fgetc(fp, k) == IF k <= Len(fp) THEN fp[k] ELSE EOF

\* what printf has written when Bitpack_newu raises: "Value : " and the
\* uint64_t 2^64 - 1 in decimal, "width : 8"
Diagnostic ==
    <<86, 97, 108, 117, 101, 32, 58, 32, 49, 56, 52, 52, 54, 55, 52, 52, 48, 55, 51, 55,
      48, 57, 53, 53, 49, 54, 49, 53, 10, 119, 105, 100, 116, 104, 32, 58, 32, 56, 10>>

\* lines 407-412: the word of the four bytes from k on, packed high byte first
WordAt(fp, k) ==
    LET b3 == Bitpack_newu(<<0, 0>>, 8, 24, fgetc(fp, k))
        b2 == IF b3.raised THEN b3 ELSE Bitpack_newu(b3.word, 8, 16, fgetc(fp, k + 1))
        b1 == IF b2.raised THEN b2 ELSE Bitpack_newu(b2.word, 8, 8, fgetc(fp, k + 2))
    IN  IF b1.raised THEN b1 ELSE Bitpack_newu(b1.word, 8, 0, fgetc(fp, k + 3))

\* read_program_file: one turn of the while loop for every k = 1, 5, 9, ... at
\* which fgetc has a byte.  The block handed to new_UM has the word count in
\* cell 0; when a word raises, the words before it are in a block whose
\* cell 0 was never written.
read_program_file(fp) ==
    LET num_elems == (Len(fp) + 3) \div 4
        packed == [j \in 1..num_elems |-> WordAt(fp, 4 * (j - 1) + 1)]
        bad == {j \in 1..num_elems : packed[j].raised}
    IN  IF bad = {}
        THEN [raised |-> FALSE,
              block |-> [alloc |-> TRUE,
                         cells |-> <<W(num_elems)>> \o [j \in 1..num_elems |-> packed[j].word]]]
        ELSE [raised |-> TRUE,
              block |-> [alloc |-> TRUE,
                         cells |-> <<UninitWord>> \o
                                   [j \in 1..(num_elems - 1) |-> packed[j].word]]]

(***************************************************************************)
(* State.                                                                  *)
(***************************************************************************)
VARIABLES
    UM,         \* the struct universal_machine
    heap,       \* the malloc'd blocks, by address
    status,     \* "running", "halted" (run_program returned), "exited" (main
                \* returned 0), "abort" (assert failed), "trap" (killed by a signal)
    stdout,     \* the bytes written
    eof,        \* stdin has delivered EOF
    \* history of the run, read by the properties only
    mapped,     \* identifiers map returned and unmap has not taken back, and 0
    issued,     \* identifiers map ever returned, and 0
    released,   \* identifiers unmapped and not yet returned again, oldest first
    maxLive,    \* the most non-zero identifiers mapped at once so far
    shadow,     \* <<id, offset, value>> of every cell stored to whose segment lives on
    loaded,     \* identifiers Load Program has duplicated into segment 0, still mapped
    wellFormed, \* nothing undefined has been executed so far
    prev,       \* the configuration before the last instruction, and that instruction
    fileLength  \* the number of bytes the program file had

hist == <<mapped, issued, released, maxLive, shadow, loaded, wellFormed, prev, fileLength>>

vars == <<UM, heap, status, stdout, eof, hist>>

Cfg == [um |-> UM, heap |-> heap, status |-> status, stdout |-> stdout, eof |-> eof]

Snapshot(op, word) ==
    [op |-> op, word |-> word, cfg |-> Cfg, mapped |-> mapped, issued |-> issued,
     released |-> released, shadow |-> shadow, wellFormed |-> wellFormed]

\* main up to the call of run_program.  When read_program_file raises, no
\* handler is on the stack: the exception is reported and the process aborts,
\* with or without what printf had buffered; no machine was made, and UM stands
\* for one that has no segment 0.
Init ==
    /\ \E fp \in Files : \E read \in {read_program_file(fp)} :
          /\ fileLength = Len(fp)
          /\ heap = [p \in Addrs |-> IF p = 1 THEN read.block ELSE FreeBlock]
          /\ UM = new_UM(IF read.raised THEN UninitPtr ELSE 1)
          /\ status = IF read.raised THEN "abort" ELSE "running"
          /\ stdout \in IF read.raised THEN {<<>>, Diagnostic} ELSE {<<>>}
    /\ eof = FALSE
    /\ mapped = {<<0, 0>>}
    /\ issued = {<<0, 0>>}
    /\ released = <<>>
    /\ maxLive = 0
    /\ shadow = {}
    /\ loaded = {}
    /\ wellFormed = TRUE
    /\ prev = [op |-> -1, word |-> <<0, 0>>, cfg |-> Cfg, mapped |-> mapped, issued |-> issued,
               released |-> released, shadow |-> shadow, wellFormed |-> wellFormed]

(***************************************************************************)
(* What the run has done so far.                                           *)
(***************************************************************************)
\* offset off of segment id may be read and written: id is mapped and the cell
\* is one of the words of its block
InRange(c, id, off) == id \in mapped /\ off # AllOnes /\ CellAt(c, id, Inc32(off))

\* executing `word` in configuration c asks for nothing undefined: not of the
\* machine (an unmapped identifier, an offset out of range, an opcode above 13)
\* and not of C (a division by zero, an allocation of 2^32 cells)
Defined(c, word) ==
    LET OP_CODE == OpCodeOf(word)
        A == Lo(Bitpack_getu(word, 3, 6))
        B == Lo(Bitpack_getu(word, 3, 3))
        C == Lo(Bitpack_getu(word, 3, 0))
        R == c.um.registers
    IN  /\ InRange(c, <<0, 0>>, c.um.program_counter)
        /\ CASE OP_CODE = 1 -> InRange(c, R[B], R[C])
             [] OP_CODE = 2 -> InRange(c, R[A], R[B])
             [] OP_CODE = 5 -> R[C] # <<0, 0>>
             [] OP_CODE = 8 -> R[C] # AllOnes
             [] OP_CODE = 9 -> R[C] # <<0, 0>> /\ R[C] \in mapped
             [] OP_CODE = 12 -> R[B] \in mapped
             [] OP_CODE > 13 -> FALSE
             [] OTHER -> TRUE

Max(a, b) == IF a >= b THEN a ELSE b

\* the history after `word` took configuration Cfg to d
Observe(word, d) ==
    LET OP_CODE == OpCodeOf(word)
        A == Lo(Bitpack_getu(word, 3, 6))
        B == Lo(Bitpack_getu(word, 3, 3))
        C == Lo(Bitpack_getu(word, 3, 0))
        R == UM.registers
        ran == d.status = "running"
        ret == d.um.registers[B]
    IN  /\ prev' = Snapshot(OP_CODE, word)
        /\ fileLength' = fileLength
        /\ wellFormed' = (wellFormed /\ Defined(Cfg, word))
        /\ mapped' = IF ran /\ OP_CODE = 8 THEN mapped \cup {ret}
                     ELSE IF ran /\ OP_CODE = 9 THEN mapped \ {R[C]}
                     ELSE mapped
        /\ issued' = IF ran /\ OP_CODE = 8 THEN issued \cup {ret} ELSE issued
        /\ released' = IF ran /\ OP_CODE = 8 THEN SelectSeq(released, LAMBDA x : x # ret)
                       ELSE IF ran /\ OP_CODE = 9 THEN Append(released, R[C])
                       ELSE released
        /\ maxLive' = Max(maxLive, Cardinality(mapped' \ {<<0, 0>>}))
        /\ shadow' = IF ~ran THEN shadow
                     ELSE IF OP_CODE = 2
                     THEN {t \in shadow : ~(t[1] = R[A] /\ t[2] = R[B])}
                          \cup {<<R[A], R[B], R[C]>>}
                     ELSE IF OP_CODE = 8 THEN {t \in shadow : t[1] # ret}
                     ELSE IF OP_CODE = 9 THEN {t \in shadow : t[1] # R[C]}
                     ELSE IF OP_CODE = 12 /\ R[B] # <<0, 0>>
                     THEN {t \in shadow : t[1] # <<0, 0>>}
                     ELSE shadow
        /\ loaded' = IF ran /\ OP_CODE = 12 /\ R[B] # <<0, 0>> THEN loaded \cup {R[B]}
                     ELSE IF ran /\ OP_CODE = 9 THEN loaded \ {R[C]}
                     ELSE loaded

Commit(d) ==
    /\ UM' = d.um
    /\ heap' = d.heap
    /\ status' = d.status
    /\ stdout' = d.stdout
    /\ eof' = d.eof

(***************************************************************************)
(* The actions: one turn of the loop of run_program per opcode, the fetch  *)
(* that faults, and main's teardown after the loop.                        *)
(***************************************************************************)
Turn(ops) ==
    \E word \in Fetched(Cfg) :
          /\ OpCodeOf(word) \in ops
          /\ OpCodeOf(word) = 10 => Len(stdout) < MaxOut
          /\ \E d \in Execute(Cfg, word) : Commit(d) /\ Observe(word, d)

ConditionalMove ==
    /\ status = "running"
    /\ Turn({0})

SegmentedLoad ==
    /\ status = "running"
    /\ Turn({1})

SegmentedStore ==
    /\ status = "running"
    /\ Turn({2})

Addition ==
    /\ status = "running"
    /\ Turn({3})

Multiplication ==
    /\ status = "running"
    /\ Turn({4})

Division ==
    /\ status = "running"
    /\ Turn({5})

BitwiseNand ==
    /\ status = "running"
    /\ Turn({6})

Halt ==
    /\ status = "running"
    /\ Turn({7})

MapSegment ==
    /\ status = "running"
    /\ Turn({8})

UnmapSegment ==
    /\ status = "running"
    /\ Turn({9})

Output ==
    /\ status = "running"
    /\ Turn({10})

Input ==
    /\ status = "running"
    /\ Turn({11})

LoadProgram ==
    /\ status = "running"
    /\ Turn({12})

LoadValue ==
    /\ status = "running"
    /\ Turn({13})

InvalidOpcode ==
    /\ status = "running"
    /\ Turn({14, 15})

\* segment_zero[program_counter + 1] is outside the block and the read faults
FetchFault ==
    /\ status = "running"
    /\ ~CellAt(Cfg, <<0, 0>>, Inc32(UM.program_counter))
    /\ status' = "trap"
    /\ wellFormed' = FALSE
    /\ prev' = Snapshot(-2, <<0, 0>>)
    /\ UNCHANGED <<UM, heap, stdout, eof, mapped, issued, released, maxLive, shadow, loaded, fileLength>>

\* main after run_program has returned: free_UM, return 0
Teardown ==
    /\ status = "halted"
    /\ \E d \in free_UM(Cfg) : Commit(d)
    /\ prev' = Snapshot(-3, <<0, 0>>)
    /\ UNCHANGED <<mapped, issued, released, maxLive, shadow, loaded, wellFormed, fileLength>>

Next ==
    \/ ConditionalMove
    \/ SegmentedLoad
    \/ SegmentedStore
    \/ Addition
    \/ Multiplication
    \/ Division
    \/ BitwiseNand
    \/ Halt
    \/ MapSegment
    \/ UnmapSegment
    \/ Output
    \/ Input
    \/ LoadProgram
    \/ LoadValue
    \/ InvalidOpcode
    \/ FetchFault
    \/ Teardown

Spec == Init /\ [][Next]_vars

(***************************************************************************)
(* Views of a configuration used by the properties.                        *)
(***************************************************************************)
\* the block of segment id: its length in cell 0, then its words
SegCells(c, id) == c.heap[SegPtr(c.um, id)].cells

\* the free-identifier pool, bottom first
Pool(um) == [i \in 1..um.num_IDs |-> um.unmapped_IDs[i - 1]]

RegA(word) == Lo(Bitpack_getu(word, 3, 6))

RegB(word) == Lo(Bitpack_getu(word, 3, 3))

RegC(word) == Lo(Bitpack_getu(word, 3, 0))

\* the last instruction was a Map Segment that returned, in a run well-formed
\* until then
MapReturned == prev.op = 8 /\ status = "running" /\ prev.wellFormed

\* the identifier it returned
LastRet == UM.registers[RegB(prev.word)]

\* the largest of a set of identifiers
MaxId(S) == CHOOSE m \in S : \A x \in S : ~Less32(m, x)

(***************************************************************************)
(* Properties of the segment store.                                        *)
(***************************************************************************)
\* C1: in a well-formed run, a map executed while identifiers are unmapped and
\* not yet reissued returns the one unmapped last, takes it (and nothing else)
\* off the pool, and issues no new identifier.
C1_LifoReuse ==
    (MapReturned /\ prev.released # <<>>) =>
        /\ LastRet = prev.released[Len(prev.released)]
        /\ Pool(UM) = SubSeq(prev.released, 1, Len(prev.released) - 1)
        /\ released = Pool(UM)
        /\ issued = prev.issued
        /\ UM.segment_arr_size = prev.cfg.um.segment_arr_size

\* two identifiers were in the pool, unmapped in the order 1, 2, and map took 2
C1_Witness ==
    /\ MapReturned
    /\ prev.released = <<W(1), W(2)>>
    /\ LastRet = W(2)
    /\ released = <<W(1)>>

\* C2: in a well-formed run the identifier map returns is not 0 and not one that
\* is mapped, and the mapped identifiers name pairwise distinct live blocks.
C2_FreshIdentifier ==
    MapReturned =>
        /\ LastRet # <<0, 0>>
        /\ LastRet \notin prev.mapped
        /\ \A i \in mapped : IsLive(heap, SegPtr(UM, i))
        /\ \A i \in mapped, j \in mapped : i # j => SegPtr(UM, i) # SegPtr(UM, j)

\* map reused an identifier while two other segments were mapped
C2_Witness ==
    /\ MapReturned
    /\ prev.released # <<>>
    /\ Cardinality(prev.mapped) >= 2
    /\ Cardinality(mapped) = Cardinality(prev.mapped) + 1

\* C3: in a well-formed run the number of identifiers ever issued, 0 included,
\* is at most one more than the most non-zero identifiers mapped at once.
C3_BoundedGrowth ==
    wellFormed => Cardinality(issued) <= maxLive + 1

\* two maps, two unmaps and a third map: still three identifiers
C3_Witness ==
    /\ wellFormed
    /\ MapReturned
    /\ Len(prev.released) = 2
    /\ maxLive = 2
    /\ Cardinality(issued) = 3

\* C4: in a well-formed run a map executed while no identifier is unmapped and
\* not yet reissued returns the largest identifier issued so far plus 1.
C4_AppendIdentifier ==
    (MapReturned /\ prev.released = <<>>) => LastRet = Inc32(MaxId(prev.issued))

\* identifier 2 appended after identifier 1 had been unmapped and reissued (the
\* free-identifier array still holds the 1 that was popped)
C4_Witness ==
    /\ MapReturned
    /\ prev.released = <<>>
    /\ prev.issued = {W(0), W(1)}
    /\ prev.cfg.um.unmapped_IDs[0] = W(1)
    /\ LastRet = W(2)

\* C5: in a run well-formed until then, after map(n) has returned id the block
\* of segment id is live and holds n in cell 0 and n words after it, all 0.
C5_FreshSegmentZeroed ==
    MapReturned =>
        LET n == prev.cfg.um.registers[RegC(prev.word)] IN
        /\ IsLive(heap, SegPtr(UM, LastRet))
        /\ IsSmall(n)
        /\ SegCells(Cfg, LastRet) = [i \in 1..(Lo(n) + 1) |-> IF i = 1 THEN n ELSE <<0, 0>>]

(***************************************************************************)
(* Properties of Load Program, the program counter, and stores and loads.  *)
(***************************************************************************)
\* the last instruction was executed, and returned, in a run that is still
\* well-formed
Executed(op) == prev.op = op /\ status = "running" /\ wellFormed

\* the registers it ran with
PrevR == prev.cfg.um.registers

\* C6: once Load Program has duplicated segment id # 0 into segment 0, a store
\* through id leaves the block of segment 0 as it was, and a store through 0
\* leaves the block of segment id as it was.
C6_DeepCopy ==
    Executed(2) =>
        LET through == PrevR[RegA(prev.word)] IN
        /\ (through \in loaded /\ through # <<0, 0>>) =>
              SegCells(Cfg, <<0, 0>>) = SegCells(prev.cfg, <<0, 0>>)
        /\ through = <<0, 0>> =>
              \A id \in loaded : SegCells(Cfg, id) = SegCells(prev.cfg, id)

\* after a Load Program of segment 1 and a store through 0, a store through 1
\* that changed segment 1
C6_Witness ==
    /\ Executed(2)
    /\ PrevR[RegA(prev.word)] = W(1)
    /\ W(1) \in loaded
    /\ \E t \in prev.shadow : t[1] = <<0, 0>>
    /\ SegCells(Cfg, W(1)) # SegCells(prev.cfg, W(1))

\* C7: Load Program with R[B] = id mapped leaves in segment 0 a block with the
\* length and the words segment id had (segment 0 itself when id = 0), and leaves
\* every other mapped segment, the registers, the free pool and the set of
\* mapped identifiers as they were.
C7_LoadProgramCopies ==
    Executed(12) =>
        /\ SegCells(Cfg, <<0, 0>>) = SegCells(prev.cfg, PrevR[RegB(prev.word)])
        /\ \A id \in mapped \ {<<0, 0>>} : SegCells(Cfg, id) = SegCells(prev.cfg, id)
        /\ UM.registers = PrevR
        /\ Pool(UM) = Pool(prev.cfg.um)
        /\ mapped = prev.mapped

\* a Load Program that put a different program into segment 0
C7_Witness ==
    /\ Executed(12)
    /\ PrevR[RegB(prev.word)] # <<0, 0>>
    /\ SegCells(Cfg, <<0, 0>>) # SegCells(prev.cfg, <<0, 0>>)
    /\ SegPtr(UM, <<0, 0>>) # SegPtr(UM, PrevR[RegB(prev.word)])

\* C8: after a Load Program that returned the program counter is R[C]; after
\* any other instruction but Halt that returned it is one more than before.
C8_PCUpdate ==
    (prev.op \in (0..13) \ {7} /\ status = "running") =>
        IF prev.op = 12
        THEN UM.program_counter = UM.registers[RegC(prev.word)]
        ELSE UM.program_counter = Inc32(prev.cfg.um.program_counter)

\* a Load Program that jumped to R[C], which is not the next word
C8_Witness ==
    /\ Executed(12)
    /\ UM.program_counter = PrevR[RegC(prev.word)]
    /\ UM.program_counter # Inc32(prev.cfg.um.program_counter)

\* C9: while the machine runs, the program counter is an offset of a word of
\* segment 0.
C9_PCInSegmentZero ==
    (status = "running" /\ wellFormed) =>
        /\ InRange(Cfg, <<0, 0>>, UM.program_counter)
        /\ Less32(UM.program_counter, SegCells(Cfg, <<0, 0>>)[1])

\* C10: in a well-formed run, a load of M[id][off] after a store of v to it,
\* with no later store to that cell, unmap or map of id, or Load Program when
\* id = 0, puts v in the destination register.
C10_StoreLoad ==
    Executed(1) =>
        \A t \in prev.shadow :
            (t[1] = PrevR[RegB(prev.word)] /\ t[2] = PrevR[RegC(prev.word)]) =>
                UM.registers[RegA(prev.word)] = t[3]

\* a load that returned the non-zero value stored, another cell of the segment
\* having been stored to in between
C10_Witness ==
    /\ Executed(1)
    /\ \E t \in prev.shadow :
          /\ t[1] = PrevR[RegB(prev.word)]
          /\ t[2] = PrevR[RegC(prev.word)]
          /\ t[3] # <<0, 0>>
          /\ UM.registers[RegA(prev.word)] = t[3]
          /\ \E u \in prev.shadow : u[1] = t[1] /\ u[2] # t[2]

(***************************************************************************)
(* Frame properties of the instructions.                                   *)
(***************************************************************************)
\* C11: a Segmented Store through a mapped identifier at an offset in range
\* changes the one cell M[R[A]][R[B]] to R[C]: the other words and the length
\* of that segment, every other mapped segment, the eight registers, the free
\* pool and the set of mapped identifiers are as before.
C11_StoreFrame ==
    Executed(2) =>
        LET id == PrevR[RegA(prev.word)]
            off == PrevR[RegB(prev.word)]
            v == PrevR[RegC(prev.word)]
        IN  /\ \A s \in prev.mapped :
                  SegCells(Cfg, s) =
                      IF s = id THEN [SegCells(prev.cfg, s) EXCEPT ![Lo(off) + 2] = v]
                      ELSE SegCells(prev.cfg, s)
            /\ UM.registers = PrevR
            /\ Pool(UM) = Pool(prev.cfg.um)
            /\ mapped = prev.mapped

\* a store that changed a word of a segment of several words, first or not,
\* while another segment was mapped
C11_Witness ==
    /\ Executed(2)
    /\ Cardinality(mapped) >= 2
    /\ LET id == PrevR[RegA(prev.word)] IN
          /\ SegCells(Cfg, id) # SegCells(prev.cfg, id)
          /\ Len(SegCells(Cfg, id)) >= 3

\* C12: an instruction other than Map Segment, Unmap Segment and a Load Program
\* with R[B] # 0 leaves the length of every mapped segment as it was: the
\* length its block records and the number of words the block holds.
C12_LengthsPreserved ==
    (/\ prev.op \in (0..13) \ {8, 9}
     /\ ~(prev.op = 12 /\ PrevR[RegB(prev.word)] # <<0, 0>>)
     /\ status \in {"running", "halted"}
     /\ wellFormed) =>
        \A s \in prev.mapped :
            /\ SegCells(Cfg, s)[1] = SegCells(prev.cfg, s)[1]
            /\ Len(SegCells(Cfg, s)) = Len(SegCells(prev.cfg, s))
            /\ Len(SegCells(Cfg, s)) = Lo(SegCells(Cfg, s)[1]) + 1

\* a store to offset 0, the cell next to the length, of a value that is not
\* the length
C12_Witness ==
    /\ Executed(2)
    /\ PrevR[RegB(prev.word)] = <<0, 0>>
    /\ PrevR[RegA(prev.word)] # <<0, 0>>
    /\ PrevR[RegC(prev.word)] # SegCells(Cfg, PrevR[RegA(prev.word)])[1]

(***************************************************************************)
(* Fatal errors and Halt.                                                  *)
(***************************************************************************)
\* the process ended in an error: an assertion failed or a signal killed it
Failed == status \in {"abort", "trap"}

\* C13: a Division with R[C] = 0, in a run well-formed until then, ends the
\* run in an error and writes no register.
C13_DivideByZeroFatal ==
    (prev.op = 5 /\ prev.wellFormed /\ PrevR[RegC(prev.word)] = <<0, 0>>) =>
        /\ Failed
        /\ UM.registers = PrevR

\* C14: an Output of R[C] >= 256, in a run well-formed until then, ends the run
\* in an error and appends no byte; an Output of R[C] <= 255 appends the one
\* byte R[C] and the run goes on.
C14_OutputRange ==
    (prev.op = 10 /\ prev.wellFormed) =>
        LET v == PrevR[RegC(prev.word)] IN
        IF IsSmall(v) /\ Lo(v) <= 255
        THEN status = "running" /\ stdout = Append(prev.cfg.stdout, Lo(v))
        ELSE Failed /\ stdout = prev.cfg.stdout

\* C15: Halt leaves the loop with the registers, the program counter, the
\* segments, the free pool and the output as they were; nothing is fetched or
\* executed afterwards: only main's teardown follows, it does not write to the
\* registers or the output, and in a well-formed run main returns 0.
C15_HaltClean ==
    /\ prev.op = 7 =>
          /\ status = "halted"
          /\ UM = prev.cfg.um
          /\ heap = prev.cfg.heap
          /\ stdout = prev.cfg.stdout
    /\ prev.op \in 0..15 => prev.cfg.status = "running"
    /\ status = "halted" => prev.op = 7
    /\ prev.op = -3 =>
          /\ prev.cfg.status = "halted"
          /\ UM = prev.cfg.um
          /\ stdout = prev.cfg.stdout
          /\ wellFormed => status = "exited"
    /\ status = "exited" => prev.op = -3

\* a Halt after some instructions and a byte of output, in a well-formed run
C15_Witness ==
    /\ prev.op = 7
    /\ status = "halted"
    /\ wellFormed
    /\ stdout # <<>>
    /\ UM.program_counter # <<0, 0>>

(***************************************************************************)
(* Arithmetic, stated on the base-256 digits of the operands: a word w is  *)
(* the number Digits(w)[0] + 256 Digits(w)[1] + 256^2 Digits(w)[2] + ...   *)
(***************************************************************************)
Digits(w) ==
    [k \in 0..7 |-> IF k < 2 THEN (w[2] \div (256 ^ k)) % 256
                    ELSE IF k < 4 THEN (w[1] \div (256 ^ (k - 2))) % 256
                    ELSE 0]

\* the digits of the number sum of t[k] * 256^k, the t[k] of any size
Normal(t) ==
    LET carry[k \in 0..7] == IF k = 0 THEN 0 ELSE (t[k - 1] + carry[k - 1]) \div 256
    IN  [k \in 0..7 |-> (t[k] + carry[k]) % 256]

\* x + y and x * y, as numbers
Sum(X, Y) == Normal([k \in 0..7 |-> X[k] + Y[k]])

Product(X, Y) ==
    LET term(k, i) == IF k - i \in 0..3 THEN X[i] * Y[k - i] ELSE 0
    IN  Normal([k \in 0..7 |-> term(k, 0) + term(k, 1) + term(k, 2) + term(k, 3)])

\* n mod 2^32
Mod32(N) == [k \in 0..7 |-> IF k < 4 THEN N[k] ELSE 0]

\* m <= n
Leq(M, N) == ~\E k \in 0..7 : M[k] > N[k] /\ \A j \in (k + 1)..7 : M[j] = N[j]

\* q = floor(x / y): q * y <= x < q * y + y
IsQuotient(Q, X, Y) == Leq(Product(Q, Y), X) /\ ~Leq(Sum(Product(Q, Y), Y), X)

\* bit i of a word
Bit(w, i) == IF i < 16 THEN (w[2] \div (2 ^ i)) % 2 ELSE (w[1] \div (2 ^ (i - 16))) % 2

\* C16: Addition writes (x + y) mod 2^32, Multiplication (x * y) mod 2^32,
\* Division with y # 0 floor(x / y), and Bitwise NAND the complement of x AND y,
\* bit by bit, to R[A], x and y being R[B] and R[C]; no other register changes;
\* every register is a value of [0, 2^32) at all times.
C16_ArithmeticWraps ==
    /\ \A i \in 0..(NumRegs - 1) : UM.registers[i] \in (0..(Limb - 1)) \X (0..(Limb - 1))
    /\ (prev.op \in 3..6 /\ status = "running") =>
          LET x == PrevR[RegB(prev.word)]
              y == PrevR[RegC(prev.word)]
              r == UM.registers[RegA(prev.word)]
          IN  /\ prev.op = 3 => Digits(r) = Mod32(Sum(Digits(x), Digits(y)))
              /\ prev.op = 4 => Digits(r) = Mod32(Product(Digits(x), Digits(y)))
              /\ (prev.op = 5 /\ y # <<0, 0>>) => IsQuotient(Digits(r), Digits(x), Digits(y))
              /\ prev.op = 6 => \A i \in 0..31 : Bit(r, i) = 1 - Bit(x, i) * Bit(y, i)
              /\ \A i \in 0..(NumRegs - 1) \ {RegA(prev.word)} : UM.registers[i] = PrevR[i]

\* add(0xFFFFFFFF, 1) = 0
C16_Witness ==
    /\ prev.op = 3
    /\ status = "running"
    /\ PrevR[RegB(prev.word)] = AllOnes
    /\ PrevR[RegC(prev.word)] = <<0, 1>>
    /\ UM.registers[RegA(prev.word)] = <<0, 0>>

(***************************************************************************)
(* Teardown and startup.                                                   *)
(***************************************************************************)
\* C17: after a well-formed run that halted, teardown has freed the block of
\* every identifier mapped at the Halt, whatever the free pool holds.
C17_TeardownFreesMapped ==
    (prev.op = -3 /\ status = "exited" /\ wellFormed) =>
        \A id \in mapped : ~IsLive(heap, SegPtr(UM, id))

\* C18: a program file whose length is not a multiple of 4 ends the process in
\* an error while it is loaded: the dispatch loop is never entered and no
\* instruction is ever executed.
C18_OddFileRejected ==
    fileLength % 4 # 0 =>
        /\ status = "abort"
        /\ prev.op = -1
        /\ UM.program_counter = <<0, 0>>

\* a file of two words and three bytes, rejected
C18_Witness ==
    /\ fileLength = 11
    /\ status = "abort"
    /\ Len(heap[1].cells) = 3

\* C19: a fetched word whose opcode is 14 or 15, in a run well-formed until
\* then, stops the machine in an error: it does not go on to the next
\* instruction.
C19_InvalidOpcodeTraps ==
    (prev.op \in {14, 15} /\ prev.wellFormed) => Failed

\* C20: in a well-formed run no block is freed twice or used after it was freed
\* (either would be undefined, and one of its outcomes a fault); a Map Segment
\* that reissues an identifier has freed the block the identifier had; a Load
\* Program with R[B] # 0 has freed the block segment 0 had and left segment 0
\* in a live block of its own; and once main has returned, the block of every
\* identifier still in the free pool has been freed.
C20_ReleasedOnce ==
    wellFormed =>
        /\ status # "trap"
        /\ (MapReturned /\ prev.released # <<>>) =>
              /\ ~IsLive(heap, SegPtr(prev.cfg.um, LastRet))
              /\ IsLive(heap, SegPtr(UM, LastRet))
        /\ (Executed(12) /\ PrevR[RegB(prev.word)] # <<0, 0>>) =>
              /\ ~IsLive(heap, SegPtr(prev.cfg.um, <<0, 0>>))
              /\ IsLive(heap, SegPtr(UM, <<0, 0>>))
              /\ SegPtr(UM, <<0, 0>>) # SegPtr(UM, PrevR[RegB(prev.word)])
        /\ status = "exited" =>
              \A i \in 1..Len(released) : ~IsLive(heap, SegPtr(UM, released[i]))

(***************************************************************************)
(* Bookkeeping and sizes of the allocator.                                 *)
(***************************************************************************)
\* C21: in a well-formed run num_segments is the number of mapped identifiers
\* (0 among them), num_IDs the number of identifiers in the free pool, their
\* sum the number of spine slots ever issued and at most segment_arr_size, and
\* num_IDs at most ID_arr_size; the spine and the free-identifier array have
\* the capacity the sizes record, and every mapped or pooled identifier is a
\* slot of the spine.
C21_Bookkeeping ==
    wellFormed =>
        /\ UM.num_segments = W(Cardinality(mapped))
        /\ UM.num_IDs = Len(released)
        /\ Pool(UM) = released
        /\ Cardinality(mapped) + UM.num_IDs = Cardinality(issued)
        /\ Cardinality(issued) <= UM.segment_arr_size
        /\ UM.num_IDs <= UM.ID_arr_size
        /\ DOMAIN UM.segments = 0..(UM.segment_arr_size - 1)
        /\ DOMAIN UM.unmapped_IDs = 0..(UM.ID_arr_size - 1)
        /\ \A id \in issued : IsSmall(id) /\ Lo(id) < Cardinality(issued)

\* both arrays have grown: four spine slots issued, two of them unmapped
C21_Witness ==
    /\ wellFormed
    /\ UM.num_IDs = 2
    /\ UM.ID_arr_size = 2
    /\ UM.num_segments = <<0, 2>>
    /\ UM.segment_arr_size = 4

\* the largest offset a segment of n words has a cell for is n - 1: the block
\* holds the length and n words
HoldsAll(cells) == Len(cells) >= 1 /\ IsSmall(cells[1]) /\ Len(cells) = Lo(cells[1]) + 1

\* C22: a Map Segment of n words that returned, in a run well-formed until
\* then, left a live block of n + 1 cells, the length n in the first; a Load
\* Program of a mapped identifier other than 0 that returned left segment 0 in
\* a live block of as many cells as its length plus 1.
C22_AllocationHoldsAll ==
    /\ (prev.op = 8 /\ status = "running" /\ prev.wellFormed) =>
          /\ IsLive(heap, SegPtr(UM, LastRet))
          /\ HoldsAll(SegCells(Cfg, LastRet))
          /\ SegCells(Cfg, LastRet)[1] = PrevR[RegC(prev.word)]
    /\ (/\ prev.op = 12
        /\ status = "running"
        /\ PrevR[RegB(prev.word)] \in prev.mapped \ {<<0, 0>>}
        /\ prev.wellFormed) =>
          /\ IsLive(heap, SegPtr(UM, <<0, 0>>))
          /\ HoldsAll(SegCells(Cfg, <<0, 0>>))

====
